---- MODULE Spec2Model ----
(***************************************************************************)
(* text_process.py: command-line frequency analysis.  initialise() checks  *)
(* sys.argv, choose_mode() reads the source file and asks for a            *)
(* tokenisation mode, frequency_analysis() runs the refinement loop and on *)
(* accept writes the selection to the destination file.                    *)
(*                                                                         *)
(* A Python string is a sequence of one-character strings, so that         *)
(* indexing (w[0], w[1], w[0][0]) and len() are computed as Python does.   *)
(* A tagged word is the pair <<word, tag>>.  Python's w[i] is w[i+1] here. *)
(***************************************************************************)
EXTENDS Integers, Sequences, FiniteSets, TLC

\* ------------------------------------------------------------------------
\* Bounds of the model
\* ------------------------------------------------------------------------

\* longest token sequence a tokeniser hands to frequency_analysis
MaxTokens == 3

\* largest len(sys.argv) tried
MaxArgc == 5

\* runs of the tool on the same destination path
MaxRuns == 2

\* ------------------------------------------------------------------------
\* Program constants
\* ------------------------------------------------------------------------

DefaultNumTokens == 100

DefaultMinLength == 3

DefaultMaxLength == 16

RequiredArgCount == 4

\* tag of a word the unigram tagger could not tag (Python None)
NoTag == <<"None">>

\* pos_tags_included, in the dict's insertion order
PosOrder ==
    << "untagged words", "nouns", "pronouns", "verbs", "adverbs",
       "adjectives", "prepositions", "miscellaneous words" >>

PosClasses == { PosOrder[i] : i \in 1..Len(PosOrder) }

POS_TAGS ==
    [ c \in PosClasses |->
        CASE c = "nouns" ->
               << <<"N","P">>, <<"N","X">>, <<"N","N">>, <<"N","N","S">>,
                  <<"N","N","P">>, <<"N","N","P","S">> >>
          [] c = "pronouns" ->
               << <<"P","R","P">>, <<"P","R","P","$">>, <<"W","P">>,
                  <<" ","W","P","$">> >>
          [] c = "verbs" ->
               << <<"V","P">>, <<"V","B">>, <<"V","B","D">>, <<"V","B","G">>,
                  <<"V","B","N">>, <<"V","B","P">>, <<"V","B","Z">> >>
          [] c = "adverbs" ->
               << <<"A","D","V","P">>, <<" ","W","H","A","D","J","P">>,
                  <<" ","W","H","A","V","P">>, <<"R","B">>, <<"R","B","R">>,
                  <<"R","B","S">>, <<"A","D","V">>, <<"-","B","N","F">>,
                  <<"-","D","I","R">>, <<"-","E","X","T">>, <<"-","L","O","C">>,
                  <<"-","M","N","R">>, <<"-","P","R","P">>, <<"-","T","M","P">> >>
          [] c = "adjectives" ->
               << <<"A","D","J","P">>, <<" ","W","H","A","D","J","P">>,
                  <<"J","J">>, <<"J","J","R">>, <<"J","J","S">> >>
          [] c = "prepositions" ->
               << <<"P","P">>, <<"W","H","P","P">>, <<"I","N">> >>
          [] c = "untagged words" -> << NoTag >>
          [] c = "miscellaneous words" -> << >> ]

\* sys.argv[1] values the dictionary ARGS has a key for
RecognisedArgs == { "freq" }

ArgCountOf(cmd) == RequiredArgCount

\* ------------------------------------------------------------------------
\* Inputs
\* ------------------------------------------------------------------------

cat == <<"c","a","t">>

\* a word of exactly the default maximum length, and one a character longer
sixteen == [ i \in 1..DefaultMaxLength |-> IF i = 1 THEN "s" ELSE "x" ]

seventeen == [ i \in 1..(DefaultMaxLength + 1) |-> IF i = 1 THEN "t" ELSE "y" ]

\* a word frequency_analysis is handed under a tag of two classes
how == <<"h","o","w">>

\* the tag POS_TAGS lists under adverbs and again under adjectives
WHADJP == <<" ","W","H","A","D","J","P">>

\* what get_words_simple may return: (word, tag) pairs
TaggedVocabulary ==
    { <<cat, <<"N","N">> >>, <<sixteen, NoTag>>, <<seventeen, <<"C","D">> >>,
      <<how, WHADJP>> }

\* what get_plain_chunks and get_ngrams may return: plain strings
PlainVocabulary == { cat, sixteen, seventeen }

SeqsUpTo(S, n) == UNION { [ 1..k -> S ] : k \in 0..n }

TokenInputs(m) ==
    IF m = "WORDS" THEN SeqsUpTo(TaggedVocabulary, MaxTokens)
                   ELSE SeqsUpTo(PlainVocabulary, MaxTokens)

\* integers typed at the prompt of line 303: a negative number, zero, and a
\* limit below the number of distinct tokens
CountInputs == { -1, 0, 1 }

\* integers typed at the prompts of lines 309 and 319: below the default
\* minimum, between the defaults, above the default maximum
LengthInputs == { 1, 4, 17 }

\* integers typed at int_input_prompt
IntInputs == CountInputs \cup LengthInputs

\* lines typed at int_input_prompt: an integer literal of the set given, or
\* text int() rejects
IntLines(S) == { <<"int", v>> : v \in S } \cup { <<"text", 0>> }

\* lines 51-56
is_int(line) == line[1] = "int"

\* int(line) for a line is_int accepts
int(line) == line[2]

\* lines typed at the mode prompt and at the command prompt
ModeKeys == { "w", "W", "c", "C", "n", "N", "q" }

CommandKeys == { "n", "N", "m", "M", "x", "X", "p", "P", "a", "A", "q" }

OnlyClass(c) == [ d \in PosClasses |-> d = c ]

OnlyClasses(S) == [ d \in PosClasses |-> d \in S ]

\* the answers a user gives to the eight yes/no questions of one pass
PassAnswers ==
    { [ d \in PosClasses |-> TRUE ], [ d \in PosClasses |-> FALSE ],
      OnlyClass("nouns"), OnlyClass("untagged words"),
      OnlyClass("miscellaneous words"),
      OnlyClasses({ "adverbs", "adjectives" }) }

\* ------------------------------------------------------------------------
\* Pure functions
\* ------------------------------------------------------------------------

\* str.lower() on the one-letter lines typed at the prompts
Lower(k) ==
    CASE k = "W" -> "w" [] k = "C" -> "c" [] k = "N" -> "n" [] k = "M" -> "m"
      [] k = "X" -> "x" [] k = "P" -> "p" [] k = "A" -> "a" [] OTHER -> k

\* Python's w[i] for a token of the given sequence: a component of a
\* (word, tag) pair, a one-character string of a plain string
PyItem(isPair, w, i) == IF isPair THEN w[i + 1] ELSE << w[i + 1] >>

\* the (class, tag) matches of lines 214-217 for one token: every enabled
\* class, every tag of the class equal to w[1]
TagMatches(isPair, w, included) ==
    UNION { { <<c, i>> : i \in { j \in 1..Len(POS_TAGS[c]) :
                                   included[c] /\ PyItem(isPair, w, 1) = POS_TAGS[c][j] } }
            : c \in PosClasses }

Repeat(x, n) == [ i \in 1..n |-> x ]

\* what lines 213-223 append to working_tokens for one token: w[0] once per
\* match, or once if nothing matched and miscellaneous words are included
PosAppended(isPair, w, included) ==
    LET n == Cardinality(TagMatches(isPair, w, included)) IN
    IF n > 0 THEN Repeat(PyItem(isPair, w, 0), n)
    ELSE IF included["miscellaneous words"] THEN << PyItem(isPair, w, 0) >>
    ELSE << >>

RECURSIVE PosFiltered(_, _, _)
PosFiltered(isPair, toks, included) ==
    IF toks = << >> THEN << >>
    ELSE PosAppended(isPair, Head(toks), included)
           \o PosFiltered(isPair, Tail(toks), included)

\* w[1] (line 217) or w[0] (lines 219, 223) is out of range for some token:
\* a plain string too short to index; a (word, tag) pair always has both
PosIndexError(isPair, toks, included) ==
    /\ ~isPair
    /\ \E k \in 1..Len(toks) :
          \/ /\ Len(toks[k]) < 2
             /\ \E c \in PosClasses : included[c] /\ Len(POS_TAGS[c]) > 0
          \/ /\ Len(toks[k]) < 1
             /\ included["miscellaneous words"]

\* lines 211-225
WorkingTokens(m, toks, allIncluded, included) ==
    IF allIncluded THEN toks ELSE PosFiltered(m = "WORDS", toks, included)

\* lines 228-233: the token of one element of working_tokens.  In word mode
\* the element is a pair only when working_tokens is the copy of tokens;
\* after the part-of-speech step it is already a string, and w[0] is then
\* its first character.
TokenOf(m, allIncluded, w) ==
    IF m = "WORDS" THEN PyItem(allIncluded, w, 0) ELSE w

\* line 234 with strict comparisons
InLengthBoundsExclusive(token, lo, hi) == lo < Len(token) /\ Len(token) < hi

\* line 234
InLengthBounds(token, lo, hi) == lo <= Len(token) /\ Len(token) <= hi

RECURSIVE LengthFiltered(_, _, _, _, _)
LengthFiltered(m, allIncluded, working, lo, hi) ==
    IF working = << >> THEN << >>
    ELSE LET token == TokenOf(m, allIncluded, Head(working))
             rest == LengthFiltered(m, allIncluded, Tail(working), lo, hi)
         IN IF InLengthBounds(token, lo, hi) THEN << token >> \o rest ELSE rest

\* lines 207-235
NewTokens(m, toks, allIncluded, included, lo, hi) ==
    LengthFiltered(m, allIncluded,
                   WorkingTokens(m, toks, allIncluded, included), lo, hi)

\* FreqDist(samples): a Counter, kept as <<token, count>> pairs in the
\* order the dict first saw each token
RECURSIVE CountInto(_, _)
CountInto(table, samples) ==
    IF samples = << >> THEN table
    ELSE LET t == Head(samples)
             at == { i \in 1..Len(table) : table[i][1] = t }
         IN IF at = {}
            THEN CountInto(Append(table, <<t, 1>>), Tail(samples))
            ELSE CountInto([ i \in 1..Len(table) |->
                               IF i \in at THEN <<t, table[i][2] + 1>> ELSE table[i] ],
                           Tail(samples))

FreqDist(samples) == CountInto(<< >>, samples)

\* sorted(items, key=count, reverse=True): stable, so an item goes after
\* every item of a count at least its own
RECURSIVE InsertByCount(_, _)
InsertByCount(sorted, item) ==
    IF sorted = << >> THEN << item >>
    ELSE IF Head(sorted)[2] >= item[2]
         THEN << Head(sorted) >> \o InsertByCount(Tail(sorted), item)
         ELSE << item >> \o sorted

RECURSIVE SortedByCount(_, _)
SortedByCount(done, items) ==
    IF items = << >> THEN done
    ELSE SortedByCount(InsertByCount(done, Head(items)), Tail(items))

\* the first n entries of the table as the dict holds them, not ranked
MostCommonUnranked(table, n) ==
    IF n <= 0 THEN << >>
    ELSE IF n >= Len(table) THEN table
    ELSE SubSeq(table, 1, n)

\* Counter.most_common(n) for an integer n: heapq.nlargest(n, items, key=count),
\* which is sorted(items, key=count, reverse=True)[:n], and [] for n <= 0
MostCommon(table, n) ==
    LET all == SortedByCount(<< >>, table) IN
    IF n <= 0 THEN << >>
    ELSE IF n >= Len(all) THEN all
    ELSE SubSeq(all, 1, n)

\* sep.join(strings)
RECURSIVE Join(_, _)
Join(sep, strs) ==
    IF strs = << >> THEN << >>
    ELSE IF Len(strs) = 1 THEN strs[1]
    ELSE strs[1] \o sep \o Join(sep, Tail(strs))

CommaSpace == << ",", " " >>

\* line 353: ', '.join([w[0][0] for w in selected_tokens]); w is a
\* (token, count) pair, w[0] the token and w[0][0] its first character
WordsString(selected) ==
    Join(CommaSpace, [ i \in 1..Len(selected) |-> << selected[i][1][1] >> ])

\* w[0][0] on an empty token
WordsStringIndexError(selected) ==
    \E i \in 1..Len(selected) : Len(selected[i][1]) = 0

\* open(path, "a"): the string is added after what the file holds
string_appended_to_text_file(old, string) ==
    IF old = << "<no file>" >> THEN string ELSE old \o string

\* open(path, "w") followed by write(string): the file holds the string
string_to_text_file(old, string) == string

\* yes_no_input_prompt(): the answer the user gave, as a boolean
yes_no_input_prompt(answer) == answer

\* lines 329-343, one pass of the for loop over pos_tags_included: every
\* class is asked in dict order and its flag overwritten with the answer
RECURSIVE PosPass(_, _, _)
PosPass(st, answers, k) ==
    IF k > Len(PosOrder) THEN st
    ELSE LET tag == PosOrder[k]
             pos_tag_chosen == yes_no_input_prompt(answers[tag])
         IN PosPass([ included |-> [ st.included EXCEPT ![tag] = pos_tag_chosen ],
                      all |-> IF pos_tag_chosen THEN st.all ELSE FALSE,
                      nothing_selected |-> IF pos_tag_chosen THEN FALSE
                                           ELSE st.nothing_selected,
                      asked |-> Append(st.asked, tag) ],
                    answers, k + 1)

\* the check of line 340 left out: a pass that included nothing is accepted
PassNeverRejected(st) == FALSE

\* line 340: the pass is rejected and the while loop runs it again
PassRejected(st) == st.nothing_selected

\* the comparison of line 311 left out: any integer is taken as the minimum
MinNeverRejected(lo, hi) == FALSE

\* line 311
MinRejected(lo, hi) == lo > hi

\* line 386 with >= for ==: extra arguments are let through
ProceedWithEnoughArgs(n, c) ==
    /\ n > 1
    /\ c \in RecognisedArgs
    /\ n >= ArgCountOf(c)

\* lines 376-387 and 401: proceed_with_args
ProceedWithArgs(n, c) ==
    /\ n > 1
    /\ c \in RecognisedArgs
    /\ n = ArgCountOf(c)

\* what initialise() prints when it does not proceed
UsageMessages(n, c) ==
    IF n > 1
    THEN IF c \in RecognisedArgs
         THEN { "arg_count_error", "arg_list", "quitting" }
         ELSE { "arg_not_recognised", "arg_list", "quitting" }
    ELSE { "no_args_error", "arg_list", "quitting" }

\* line 328 without the test of the mode
PosAlwaysApplicable(m) == TRUE

\* line 328
PosApplicable(m) == m # "NGRAMS"

\* line 347 as a closing else: whatever is no edit command accepts
CommitsUnlessEdit(k) == Lower(k) \notin { "n", "m", "x", "p" }

\* line 347
Commits(k) == Lower(k) = "a"

\* chosen set by every branch of the command chain
ChosenWhatever(m, k) == TRUE

\* the value of chosen when the branch taken for a command has run to its
\* end: set at lines 305, 315, 326, 336 and 348, left False (line 293) by
\* lines 345-346 and 351
Chosen(m, k) ==
    \/ Lower(k) \in { "n", "m", "x", "a" }
    \/ Lower(k) = "p" /\ PosApplicable(m)

\* ------------------------------------------------------------------------
\* State
\* ------------------------------------------------------------------------

VARIABLES
    pc,                     \* where the process is: the prompt it waits at
    run,                    \* which run of the tool this is
    argc, cmd,              \* len(sys.argv) and sys.argv[1]
    src,                    \* the source path: readable, missing or denied
    src_opened,             \* open() of the source path was attempted
    dest,                   \* content of the destination file
    dest_at_start,          \* its content when this process started
    writes,                 \* writes to the destination in this run
    msg,                    \* what the last step printed
    error,                  \* the uncaught exception that ended the process
    mode, tokens,           \* arguments of frequency_analysis
    num_tokens, min_token_length, max_token_length,
    all_pos_tags_included, pos_tags_included,
    working_tokens,         \* of the current iteration of the while loop
    fdist, selected_tokens,
    user_input,             \* the line last read at the command prompt
    asked,                  \* classes asked about in the last pass, in order
    committed

filter == << num_tokens, min_token_length, max_token_length,
             all_pos_tags_included, pos_tags_included >>

iteration == << working_tokens, fdist, selected_tokens >>

analysis == << mode, tokens, filter, iteration, user_input, asked, committed >>

env == << run, argc, cmd, src, dest_at_start >>

vars == << pc, env, src_opened, dest, writes, msg, error, analysis >>

NoFile == << "<no file>" >>

AllIncluded == [ c \in PosClasses |-> TRUE ]

\* argument vectors tried: no argument, or a first argument and 0..3 more
ArgInputs ==
    { <<1, "none">> } \cup ((2..MaxArgc) \X { "freq", "frob" })

FreshProcess(n, c, s) ==
    /\ pc' = "start"
    /\ argc' = n
    /\ cmd' = c
    /\ src' = s
    /\ src_opened' = FALSE
    /\ writes' = 0
    /\ msg' = {}
    /\ error' = "none"
    /\ dest_at_start' = dest
    /\ mode' = "none"
    /\ tokens' = << >>
    /\ num_tokens' = DefaultNumTokens
    /\ min_token_length' = DefaultMinLength
    /\ max_token_length' = DefaultMaxLength
    /\ all_pos_tags_included' = TRUE
    /\ pos_tags_included' = AllIncluded
    /\ working_tokens' = << >>
    /\ fdist' = << >>
    /\ selected_tokens' = << >>
    /\ user_input' = ""
    /\ asked' = << >>
    /\ committed' = FALSE

Init ==
    /\ run = 1
    /\ dest = NoFile
    /\ pc = "start"
    /\ \E a \in ArgInputs : argc = a[1] /\ cmd = a[2]
    /\ src \in { "readable", "missing", "denied" }
    /\ src_opened = FALSE
    /\ writes = 0
    /\ msg = {}
    /\ error = "none"
    /\ dest_at_start = NoFile
    /\ mode = "none"
    /\ tokens = << >>
    /\ num_tokens = DefaultNumTokens
    /\ min_token_length = DefaultMinLength
    /\ max_token_length = DefaultMaxLength
    /\ all_pos_tags_included = TRUE
    /\ pos_tags_included = AllIncluded
    /\ working_tokens = << >>
    /\ fdist = << >>
    /\ selected_tokens = << >>
    /\ user_input = ""
    /\ asked = << >>
    /\ committed = FALSE

\* ------------------------------------------------------------------------
\* One iteration of the while loop, lines 205-292, up to the command prompt
\* ------------------------------------------------------------------------

\* the table of line 237 for a token sequence and a filter state
Table(m, toks, lo, hi, allInc, inc) ==
    FreqDist(NewTokens(m, toks, allInc, inc, lo, hi))

\* working_tokens when line 217, 219 or 223 raises: what the tokens before
\* the one that cannot be indexed appended
WorkingTokensBeforeError(m, toks, inc) ==
    LET bad == CHOOSE k \in 1..Len(toks) :
                  /\ PosIndexError(FALSE, << toks[k] >>, inc)
                  /\ \A j \in 1..(k - 1) : ~PosIndexError(FALSE, << toks[j] >>, inc)
    IN PosFiltered(m = "WORDS", SubSeq(toks, 1, bad - 1), inc)

\* the loop body up to the prompt of line 301, after a command that printed
\* the messages given.  IndexError ends the process at line 217/219/223 (a
\* string too short to index) and at line 291 (word_string is empty when
\* nothing is selected), after the results of lines 245 and 273 were
\* printed.
Iterate(m, toks, n, lo, hi, allInc, inc, printed) ==
    IF ~allInc /\ PosIndexError(m = "WORDS", toks, inc)
    THEN /\ pc' = "crashed"
         /\ error' = "IndexError at line 217"
         /\ working_tokens' = WorkingTokensBeforeError(m, toks, inc)
         /\ fdist' = fdist
         /\ selected_tokens' = selected_tokens
         /\ msg' = printed
    ELSE LET table == Table(m, toks, lo, hi, allInc, inc)
             selected == MostCommon(table, n)
         IN /\ working_tokens' = WorkingTokens(m, toks, allInc, inc)
            /\ fdist' = table
            /\ selected_tokens' = selected
            /\ pc' = IF selected = << >> THEN "crashed" ELSE "awaiting"
            /\ error' = IF selected = << >> THEN "IndexError at line 291" ELSE "none"
            /\ msg' = printed \cup { "results" }

\* ------------------------------------------------------------------------
\* Actions
\* ------------------------------------------------------------------------

\* initialise(), lines 367-405, and when it proceeds the start of
\* choose_mode(), lines 163-170, up to the first input()
Initialise ==
    /\ pc = "start"
    /\ IF ProceedWithArgs(argc, cmd)
       THEN /\ src_opened' = TRUE
            /\ CASE src = "readable" ->
                      /\ pc' = "choose_mode"
                      /\ msg' = { "mode_prompt" }
                      /\ error' = "none"
                 [] src = "missing" ->
                      \* FileNotFoundError is caught: text_string is None
                      /\ pc' = "choose_mode"
                      /\ msg' = { "no_file", "mode_prompt" }
                      /\ error' = "none"
                 [] OTHER ->
                      \* any other OSError is not caught
                      /\ pc' = "crashed"
                      /\ msg' = {}
                      /\ error' = "OSError at line 69"
       ELSE /\ pc' = "exited"
            /\ error' = "none"
            /\ msg' = UsageMessages(argc, cmd)
            /\ src_opened' = FALSE
    /\ UNCHANGED << env, dest, writes, analysis >>

\* frequency_analysis(mode, tokens), lines 191-204, and its first iteration
StartAnalysis(m, toks) ==
    /\ mode' = m
    /\ tokens' = toks
    /\ num_tokens' = DefaultNumTokens
    /\ min_token_length' = DefaultMinLength
    /\ max_token_length' = DefaultMaxLength
    /\ all_pos_tags_included' = TRUE
    /\ pos_tags_included' = AllIncluded
    /\ committed' = FALSE
    /\ Iterate(m, toks, DefaultNumTokens, DefaultMinLength, DefaultMaxLength,
               TRUE, AllIncluded, {})
    /\ UNCHANGED << env, src_opened, dest, writes, user_input, asked >>

\* text_string is None: text_string.lower() (line 172), sent_tokenize (line
\* 94, from 175) or text_string.translate (line 153, from 180) raises
TokeniserRaises(line) ==
    /\ pc' = "crashed"
    /\ error' = line
    /\ msg' = {}
    /\ UNCHANGED << env, src_opened, dest, writes, analysis >>

\* lines 170-173: W
ChooseWords ==
    /\ pc = "choose_mode"
    /\ \E key \in ModeKeys :
          /\ Lower(key) = "w"
          /\ IF src = "missing" THEN TokeniserRaises("AttributeError at line 172")
             ELSE \E toks \in TokenInputs("WORDS") : StartAnalysis("WORDS", toks)

\* lines 174-177: C
ChooseChunks ==
    /\ pc = "choose_mode"
    /\ \E key \in ModeKeys :
          /\ Lower(key) = "c"
          /\ IF src = "missing" THEN TokeniserRaises("TypeError at line 94")
             ELSE \E toks \in TokenInputs("CHUNKS") : StartAnalysis("CHUNKS", toks)

\* lines 178-179: N, up to the input() of int_input_prompt
ChooseNgrams ==
    /\ pc = "choose_mode"
    /\ \E key \in ModeKeys : Lower(key) = "n"
    /\ pc' = "ngram_size"
    /\ msg' = {}
    /\ UNCHANGED << error, env, src_opened, dest, writes, analysis >>

\* lines 58-65 and 180-181: the size of the n-grams is typed
NgramSize ==
    /\ pc = "ngram_size"
    /\ \E line \in IntLines(IntInputs) :
          IF ~is_int(line)
          THEN /\ msg' = { "please_int" }
               /\ UNCHANGED << pc, env, src_opened, dest, writes, error, analysis >>
          ELSE IF src = "missing" THEN TokeniserRaises("AttributeError at line 153")
          ELSE \E toks \in TokenInputs("NGRAMS") : StartAnalysis("NGRAMS", toks)

\* lines 182-183
ChooseUnrecognised ==
    /\ pc = "choose_mode"
    /\ \E key \in ModeKeys : Lower(key) \notin { "w", "c", "n" }
    /\ msg' = { "mode_not_recognised", "mode_prompt" }
    /\ UNCHANGED << pc, env, src_opened, dest, writes, error, analysis >>

\* what a command leaves alone up to the input() of its first prompt
CommandFrame ==
    UNCHANGED << error, env, src_opened, dest, writes, mode, tokens, filter,
                 iteration, asked, committed >>

\* lines 301-303: N, up to the input() of int_input_prompt
CommandCount ==
    /\ pc = "awaiting"
    /\ \E k \in CommandKeys : Lower(k) = "n" /\ user_input' = k
    /\ pc' = "edit_count"
    /\ msg' = {}
    /\ CommandFrame

\* lines 301, 306-309: M
CommandMin ==
    /\ pc = "awaiting"
    /\ \E k \in CommandKeys : Lower(k) = "m" /\ user_input' = k
    /\ pc' = "edit_min"
    /\ msg' = {}
    /\ CommandFrame

\* lines 301, 316-319: X
CommandMax ==
    /\ pc = "awaiting"
    /\ \E k \in CommandKeys : Lower(k) = "x" /\ user_input' = k
    /\ pc' = "edit_max"
    /\ msg' = {}
    /\ CommandFrame

\* lines 301, 327-333, outside n-gram mode: P, up to the first yes/no
\* question
CommandPos ==
    /\ pc = "awaiting"
    /\ PosApplicable(mode)
    /\ \E k \in CommandKeys : Lower(k) = "p" /\ user_input' = k
    /\ pc' = "edit_pos"
    /\ msg' = {}
    /\ CommandFrame

\* the end of the inner while loop, line 294, for a command whose branch
\* only printed: if chosen is set the outer loop iterates, else the prompt
\* of line 301 is next
PromptAgain(k, printed) ==
    /\ user_input' = k
    /\ IF Chosen(mode, k)
       THEN Iterate(mode, tokens, num_tokens, min_token_length, max_token_length,
                    all_pos_tags_included, pos_tags_included, printed)
       ELSE /\ msg' = printed
            /\ UNCHANGED << pc, error, iteration >>
    /\ UNCHANGED << env, src_opened, dest, writes, mode, tokens, filter, asked,
                    committed >>

\* lines 301, 327-328 and 344-346, n-gram mode
CommandPosNgrams ==
    /\ pc = "awaiting"
    /\ ~PosApplicable(mode)
    /\ \E k \in CommandKeys :
          /\ Lower(k) = "p"
          /\ PromptAgain(k, { "pos_not_applicable" })

\* lines 301 and 350-351
CommandUnrecognised ==
    /\ pc = "awaiting"
    /\ \E k \in CommandKeys :
          /\ Lower(k) \notin { "n", "m", "x", "p" }
          /\ ~Commits(k)
          /\ PromptAgain(k, { "input_not_recognised" })

\* lines 303-305 and the next iteration
EditCount ==
    /\ pc = "edit_count"
    /\ \E line \in IntLines(CountInputs) :
          IF ~is_int(line)
          THEN /\ msg' = { "please_int" }
               /\ UNCHANGED << pc, env, src_opened, dest, writes, error, analysis >>
          ELSE /\ num_tokens' = int(line)
               /\ Iterate(mode, tokens, int(line), min_token_length, max_token_length,
                          all_pos_tags_included, pos_tags_included, {})
               /\ UNCHANGED << env, src_opened, dest, writes, mode,
                               tokens, min_token_length, max_token_length,
                               all_pos_tags_included, pos_tags_included,
                               user_input, asked, committed >>

\* lines 308-315 and the next iteration: min_token_length is assigned before
\* it is compared
EditMin ==
    /\ pc = "edit_min"
    /\ \E line \in IntLines(LengthInputs) :
          IF ~is_int(line)
          THEN /\ msg' = { "please_int" }
               /\ UNCHANGED << pc, env, src_opened, dest, writes, error, analysis >>
          ELSE /\ min_token_length' = int(line)
               /\ IF MinRejected(int(line), max_token_length)
                  THEN /\ msg' = { "min_exceeds_max" }
                       /\ UNCHANGED << pc, error, iteration >>
                  ELSE Iterate(mode, tokens, num_tokens, int(line), max_token_length,
                               all_pos_tags_included, pos_tags_included, {})
               /\ UNCHANGED << env, src_opened, dest, writes, mode,
                               tokens, num_tokens, max_token_length,
                               all_pos_tags_included, pos_tags_included,
                               user_input, asked, committed >>

\* lines 318-321: max_token_length is assigned, then the comparison reads
\* mamin_token_length, a name bound nowhere: NameError ends the process
EditMax ==
    /\ pc = "edit_max"
    /\ \E line \in IntLines(LengthInputs) :
          IF ~is_int(line)
          THEN /\ msg' = { "please_int" }
               /\ UNCHANGED << pc, env, src_opened, dest, writes, error, analysis >>
          ELSE /\ max_token_length' = int(line)
               /\ pc' = "crashed"
               /\ error' = "NameError at line 321"
               /\ msg' = {}
               /\ UNCHANGED << env, src_opened, dest, writes, mode,
                               tokens, num_tokens, min_token_length,
                               all_pos_tags_included, pos_tags_included,
                               iteration, user_input, asked, committed >>

\* lines 330-343, one pass of the while loop, and the next iteration when
\* the pass is accepted
EditPos ==
    /\ pc = "edit_pos"
    /\ \E answers \in PassAnswers :
          LET st == PosPass([ included |-> pos_tags_included,
                              all |-> all_pos_tags_included,
                              nothing_selected |-> TRUE,
                              asked |-> << >> ], answers, 1)
          IN /\ pos_tags_included' = st.included
             /\ all_pos_tags_included' = st.all
             /\ asked' = st.asked
             /\ IF PassRejected(st)
                THEN /\ msg' = { "pos_none_selected" }
                     /\ UNCHANGED << pc, error, iteration >>
                ELSE Iterate(mode, tokens, num_tokens, min_token_length,
                             max_token_length, st.all, st.included, {})
    /\ UNCHANGED << env, src_opened, dest, writes, mode, tokens,
                    num_tokens, min_token_length, max_token_length,
                    user_input, committed >>

\* lines 301, 347-349 and 353-356: accept, write the file, quit
CommandAccept ==
    /\ pc = "awaiting"
    /\ \E k \in CommandKeys : Commits(k) /\ user_input' = k
    /\ committed' = TRUE
    /\ IF WordsStringIndexError(selected_tokens)
       THEN /\ pc' = "crashed"
            /\ error' = "IndexError at line 353"
            /\ msg' = {}
            /\ UNCHANGED << dest, writes >>
       ELSE /\ dest' = string_to_text_file(dest, WordsString(selected_tokens))
            /\ writes' = writes + 1
            /\ msg' = { "saved" }
            /\ pc' = "exited"
            /\ error' = "none"
    /\ UNCHANGED << env, src_opened, mode, tokens, filter, iteration, asked >>

\* the tool is run again: a new process, the same destination file
Rerun ==
    /\ pc \in { "exited", "crashed" }
    /\ run < MaxRuns
    /\ run' = run + 1
    /\ \E a \in ArgInputs, s \in { "readable", "missing", "denied" } :
          FreshProcess(a[1], a[2], s)
    /\ UNCHANGED dest

Next ==
    \/ Initialise
    \/ ChooseWords
    \/ ChooseChunks
    \/ ChooseNgrams
    \/ NgramSize
    \/ ChooseUnrecognised
    \/ CommandCount
    \/ CommandMin
    \/ CommandMax
    \/ CommandPos
    \/ CommandPosNgrams
    \/ CommandUnrecognised
    \/ EditCount
    \/ EditMin
    \/ EditMax
    \/ EditPos
    \/ CommandAccept

\* one run of the tool
Spec == Init /\ [][Next]_vars

\* runs on the same destination path by a user who picks a mode, changes at
\* most the number of tokens selected, and accepts
NextTwoRuns ==
    \/ Initialise
    \/ ChooseWords
    \/ ChooseChunks
    \/ ChooseNgrams
    \/ NgramSize
    \/ ChooseUnrecognised
    \/ CommandCount
    \/ CommandUnrecognised
    \/ EditCount
    \/ CommandAccept
    \/ Rerun

SpecTwoRuns == Init /\ [][NextTwoRuns]_vars

\* ------------------------------------------------------------------------
\* Properties
\* ------------------------------------------------------------------------

\* the loop body ran with the current filter state: the process waits at
\* the command prompt, or the iteration itself raised
Iterated ==
    \/ pc = "awaiting"
    \/ error \in { "IndexError at line 217", "IndexError at line 291" }

Committed == pc = "exited" /\ committed

\* the string a token of the original sequence stands for
TokenText(w) == IF mode = "WORDS" THEN w[1] ELSE w

Texts == { TokenText(tokens[k]) : k \in 1..Len(tokens) }

Occurrences(t) == Cardinality({ k \in 1..Len(tokens) : TokenText(tokens[k]) = t })

FirstOccurrence(t) ==
    CHOOSE k \in 1..Len(tokens) :
        /\ TokenText(tokens[k]) = t
        /\ \A j \in 1..(k - 1) : TokenText(tokens[j]) # t

TableTokens == { fdist[i][1] : i \in 1..Len(fdist) }

SomeClassIncluded == \E c \in PosClasses : pos_tags_included[c]

EveryClassIncluded == \A c \in PosClasses : pos_tags_included[c]

\* C1: whenever the loop is at, or can next reach, an iteration of its body
\* (the command prompt, the prompts of N, X and P, the iteration itself),
\* min_token_length <= max_token_length; only inside the M prompt's retry
\* loop, and in the process X killed, may the two be out of order.
C1_MinNotAboveMax ==
    (Iterated \/ pc \in { "edit_count", "edit_max", "edit_pos", "exited" })
        => min_token_length <= max_token_length

\* an M edit was accepted and the loop is back at the command prompt
C1_Witness ==
    /\ pc = "awaiting"
    /\ min_token_length = 4
    /\ max_token_length = DefaultMaxLength

\* C2: every iteration of the loop body runs with at least one class
\* included; a pass asks about all eight classes in dict order; a pass that
\* included none is rejected and the process is back at the first question.
C2_SomeClassIncluded ==
    /\ (Iterated \/ Committed) => SomeClassIncluded
    /\ asked \in { << >>, PosOrder }
    /\ (asked = PosOrder /\ ~SomeClassIncluded)
          => (pc = "edit_pos" /\ msg = { "pos_none_selected" })

\* a pass that declined seven classes was accepted
C2_Witness ==
    /\ pc = "awaiting"
    /\ asked = PosOrder
    /\ pos_tags_included = OnlyClass("nouns")
    /\ ~all_pos_tags_included

\* C3: the file written on accept holds the selected tokens in full, in
\* rank order, joined by ", ".
C3_FileHoldsTokensInFull ==
    Committed =>
        dest = Join(CommaSpace,
                    [ i \in 1..Len(selected_tokens) |-> selected_tokens[i][1] ])

\* C4: while every part of speech is included (all_pos_tags_included, the
\* state the tool reports as "All parts-of-speech are included"), the table
\* of an iteration holds exactly the distinct tokens of the original
\* sequence within the length bounds, each once, with its number of
\* occurrences in the original sequence.
C4_TableCountsTokensInBounds ==
    (Iterated /\ all_pos_tags_included) =>
        /\ TableTokens = { t \in Texts : /\ min_token_length <= Len(t)
                                         /\ Len(t) <= max_token_length }
        /\ \A i \in 1..Len(fdist) : fdist[i][2] = Occurrences(fdist[i][1])
        /\ \A i, j \in 1..Len(fdist) : fdist[i][1] = fdist[j][1] => i = j

\* a token counted twice and a token outside the bounds left out
C4_Witness ==
    /\ pc = "awaiting"
    /\ all_pos_tags_included
    /\ Len(tokens) = 3
    /\ seventeen \in Texts
    /\ fdist = << <<cat, 2>> >>

\* whether a token of the original sequence passes the part-of-speech step
\* as the specification states it: everything while all classes are
\* included; otherwise a tagged word whose tag is of an included class, and
\* a token of no class when miscellaneous words are included
InSomeClass(tag) ==
    \E c \in PosClasses : \E j \in 1..Len(POS_TAGS[c]) : POS_TAGS[c][j] = tag

InIncludedClass(tag) ==
    \E c \in PosClasses :
        pos_tags_included[c] /\ \E j \in 1..Len(POS_TAGS[c]) : POS_TAGS[c][j] = tag

PassesPos(w) ==
    \/ all_pos_tags_included
    \/ mode = "WORDS" /\ InIncludedClass(w[2])
    \/ mode = "WORDS" /\ ~InSomeClass(w[2]) /\ pos_tags_included["miscellaneous words"]
    \/ mode # "WORDS" /\ pos_tags_included["miscellaneous words"]

\* C5: in every mode, with or without part-of-speech filtering, a token of
\* exactly min_token_length or max_token_length characters that passes the
\* part-of-speech step is in the table, and one a character shorter than the
\* minimum or longer than the maximum is not.
C5_LengthBoundsInclusive ==
    pc = "awaiting" =>
        \A k \in 1..Len(tokens) :
            LET t == TokenText(tokens[k]) IN
            /\ (PassesPos(tokens[k]) /\ Len(t) \in { min_token_length, max_token_length })
                  => t \in TableTokens
            /\ Len(t) \in { min_token_length - 1, max_token_length + 1 }
                  => t \notin TableTokens

\* the same, only while every part of speech is included
C5_LengthBoundsInclusiveAllPos ==
    all_pos_tags_included => C5_LengthBoundsInclusive

Smaller(a, b) == IF a <= b THEN a ELSE b

PlaceInTable(e) == CHOOSE k \in 1..Len(fdist) : fdist[k] = e

\* entry a ranks before entry b: a higher count, or the same count and an
\* earlier place in the table
RanksBefore(a, b) ==
    \/ a[2] > b[2]
    \/ a[2] = b[2] /\ PlaceInTable(a) < PlaceInTable(b)

\* C6: the selection shown at the prompt and committed is the first
\* num_tokens entries of the table by descending count, equal counts in the
\* order of first occurrence: it has min(num_tokens, distinct tokens)
\* entries, all of the table, in rank order, and every entry left out ranks
\* after every entry selected.
C6_SelectionIsTopOfTable ==
    (pc = "awaiting" \/ Committed) =>
        LET n == Len(selected_tokens)
            Selected == { selected_tokens[i] : i \in 1..n }
            Entries == { fdist[k] : k \in 1..Len(fdist) }
        IN /\ n = Smaller(num_tokens, Len(fdist))
           /\ Selected \subseteq Entries
           /\ \A i, j \in 1..n :
                 i < j => RanksBefore(selected_tokens[i], selected_tokens[j])
           /\ \A e \in Entries \ Selected : \A f \in Selected : RanksBefore(f, e)
           /\ all_pos_tags_included =>
                 \A i, j \in 1..Len(fdist) :
                     i < j => FirstOccurrence(fdist[i][1]) < FirstOccurrence(fdist[j][1])

\* one token selected out of two, the one seen later but counted higher
C6_Witness ==
    /\ pc = "awaiting"
    /\ num_tokens = 1
    /\ Len(fdist) = 2
    /\ fdist[2][2] > fdist[1][2]
    /\ selected_tokens = << fdist[2] >>

\* C7: no command changes the original token sequence, and with every class
\* included again the table and the selection are those built, for the same
\* bounds and limit, before any class was excluded.
C7_RestoredFilterSameTable ==
    (pc = "awaiting" /\ EveryClassIncluded) =>
        LET before == Table(mode, tokens, min_token_length, max_token_length,
                            TRUE, AllIncluded)
        IN /\ fdist = before
           /\ selected_tokens = MostCommon(before, num_tokens)

\* C8: past initialise(), either sys.argv is a recognised command followed
\* by exactly two arguments, or the process has exited after the usage
\* messages without opening the source, writing the destination or
\* reaching the mode prompt.
C8_WorkOnlyWithValidArgs ==
    pc # "start" =>
        IF cmd \in RecognisedArgs /\ argc - 2 = 2
        THEN src_opened
        ELSE /\ pc = "exited"
             /\ ~src_opened
             /\ writes = 0
             /\ dest = dest_at_start
             /\ mode = "none"
             /\ { "arg_list", "quitting" } \subseteq msg
             /\ argc = 1 => "no_args_error" \in msg
             /\ (argc > 1 /\ cmd \in RecognisedArgs) => "arg_count_error" \in msg
             /\ (argc > 1 /\ cmd \notin RecognisedArgs) => "arg_not_recognised" \in msg

\* the recognised command with one argument too many
C8_Witness ==
    /\ pc = "exited"
    /\ cmd = "freq"
    /\ argc = RequiredArgCount + 1
    /\ "arg_count_error" \in msg
    /\ ~src_opened

\* C9: after a commit the destination holds exactly what this run wrote,
\* written once, whatever it held before; a run that has not committed
\* leaves it as it found it.
C9_CommitReplacesContent ==
    IF Committed
    THEN dest = WordsString(selected_tokens) /\ writes = 1
    ELSE dest = dest_at_start /\ writes = 0

\* a second run committed a shorter list over the first run's
C9_Witness ==
    /\ run = 2
    /\ Committed
    /\ dest_at_start # NoFile
    /\ Len(dest) < Len(dest_at_start)

\* C10: once the source file was found missing the run is over: the process
\* is at no prompt.
C10_MissingSourceIsFatal ==
    (src_opened /\ src = "missing") => pc \in { "exited", "crashed" }

\* C11: the table of an iteration is the one the token sequence and the
\* Filter State (the limit, the two bounds and the eight inclusion flags)
\* determine, whatever commands came before: the table a loop derives that
\* reached the same bounds and flags without ever excluding a class when
\* every flag is set, and the table of the part-of-speech step otherwise.
C11_TableDeterminedByFilterState ==
    (Iterated /\ error # "IndexError at line 217") =>
        fdist = Table(mode, tokens, min_token_length, max_token_length,
                      EveryClassIncluded, pos_tags_included)

\* C12: a step that takes a valid value at the prompt of N, M, X or P sets
\* the field and ends at the command prompt; A ends the run committed, and
\* nothing happens after that.
C12_EditsReturnToPrompt ==
    [][ /\ (pc = "edit_count" /\ num_tokens' # num_tokens) => pc' = "awaiting"
        /\ (/\ pc = "edit_min"
            /\ min_token_length' # min_token_length
            /\ min_token_length' <= max_token_length) => pc' = "awaiting"
        /\ (/\ pc = "edit_max"
            /\ max_token_length' # max_token_length
            /\ min_token_length <= max_token_length') => pc' = "awaiting"
        /\ (/\ pc = "edit_pos"
            /\ asked' = PosOrder
            /\ \E c \in PosClasses : pos_tags_included'[c]) => pc' = "awaiting"
        /\ (pc = "awaiting" /\ user_input' \in { "a", "A" })
              => (pc' = "exited" /\ committed')
        /\ pc = "exited" => UNCHANGED vars ]_vars

\* C13: while only N, M and X have been used (no part-of-speech pass was
\* made), no iteration of the loop body raises: the process is never ended
\* by the IndexError of line 217 or of line 291.
C13_IterationNeverRaises ==
    asked = << >> =>
        error \notin { "IndexError at line 217", "IndexError at line 291" }

\* C14: in word mode with part-of-speech filtering active, a word of the
\* original sequence is in working_tokens exactly when its tag is of an
\* included class, or is of no class while miscellaneous words are included.
C14_PosStepKeepsIncludedClasses ==
    (/\ Iterated
     /\ error # "IndexError at line 217"
     /\ mode = "WORDS"
     /\ ~all_pos_tags_included) =>
        \A k \in 1..Len(tokens) :
            (\E i \in 1..Len(working_tokens) : working_tokens[i] = tokens[k][1])
              <=> \/ InIncludedClass(tokens[k][2])
                  \/ /\ ~InSomeClass(tokens[k][2])
                     /\ pos_tags_included["miscellaneous words"]

\* C15: a step at the prompt of M or X that would leave min_token_length
\* above max_token_length is rejected: it prints the message, stays at the
\* prompt and leaves both bounds as they were.
C15_RejectedBoundLeavesBounds ==
    [][ /\ (pc = "edit_min" /\ "min_exceeds_max" \in msg')
              => (pc' = "edit_min" /\ UNCHANGED << min_token_length, max_token_length >>)
        /\ (/\ pc = "edit_max"
            /\ max_token_length' # max_token_length
            /\ min_token_length > max_token_length')
              => FALSE ]_vars

\* C16: in word mode, after a part-of-speech pass that left every class
\* included, the table is the one built for the same sequence and bounds
\* under the default state, in which all classes are included.
C16_AllClassesAgainDefaultTable ==
    (/\ Iterated
     /\ mode = "WORDS"
     /\ asked = PosOrder
     /\ \A c \in PosClasses : pos_tags_included[c]) =>
        fdist = Table("WORDS", tokens, min_token_length, max_token_length,
                      TRUE, AllIncluded)

\* C17: a step that reads, at the command prompt, a line that is none of
\* m, x, n, p, a in either case prints the error message and nothing else
\* (no table is printed again), changes no field of the filter state, of the
\* iteration or of the destination, and is at the command prompt again.
C17_UnrecognisedInputChangesNothing ==
    [][ (/\ pc = "awaiting"
         /\ user_input' \notin { "m", "M", "x", "X", "n", "N", "p", "P", "a", "A" }) =>
            /\ pc' = "awaiting"
            /\ msg' = { "input_not_recognised" }
            /\ UNCHANGED << filter, iteration, asked, mode, tokens, committed,
                            dest, writes, error >> ]_vars

\* an unrecognised line after an edit of the limit: the limit is kept
C17_Witness ==
    /\ pc = "awaiting"
    /\ user_input = "q"
    /\ msg = { "input_not_recognised" }
    /\ num_tokens = 1
    /\ Len(selected_tokens) = 1

\* C18: the destination changes, and a write is counted, only in the step
\* that reads a or A at the command prompt; that step is the first write of
\* the run and ends it, and what it writes is the serialisation of the
\* selection of the current iteration, which is the selection the current
\* filter state gives.
C18_WrittenOnceOnAccept ==
    [][ /\ (dest' # dest \/ writes' # writes) =>
              /\ pc = "awaiting"
              /\ user_input' \in { "a", "A" }
              /\ writes = 0 /\ writes' = 1
              /\ pc' = "exited"
              /\ selected_tokens =
                    MostCommon(Table(mode, tokens, min_token_length, max_token_length,
                                     all_pos_tags_included, pos_tags_included),
                               num_tokens)
              /\ dest' = Join(CommaSpace,
                              [ i \in 1..Len(selected_tokens) |->
                                    << selected_tokens[i][1][1] >> ])
        /\ (pc = "awaiting" /\ pc' = "exited") => writes' = 1 ]_vars

\* accepted after an M edit, a part-of-speech pass and an N edit
C18_Witness ==
    /\ Committed
    /\ writes = 1
    /\ user_input \in { "a", "A" }
    /\ asked = PosOrder
    /\ min_token_length = 1
    /\ num_tokens = 1
    /\ dest # NoFile

\* the original tokens a table entry can stand for: those whose text is the
\* entry, or begins with it when the entry is a single character
StandsFor(t) ==
    { k \in 1..Len(tokens) :
        \/ TokenText(tokens[k]) = t
        \/ << TokenText(tokens[k])[1] >> = t }

C20_PosNotApplicableToNgrams ==
    [][ (/\ pc = "awaiting"
         /\ mode = "NGRAMS"
         /\ user_input' \in { "p", "P" }) =>
            /\ pc' = "awaiting"
            /\ msg' = { "pos_not_applicable" }
            /\ UNCHANGED << filter, iteration, asked, mode, tokens, committed,
                            dest, writes, error >> ]_vars

\* P typed in n-gram mode after an edit of the minimum length
C20_Witness ==
    /\ pc = "awaiting"
    /\ mode = "NGRAMS"
    /\ user_input \in { "p", "P" }
    /\ msg = { "pos_not_applicable" }
    /\ asked = << >>
    /\ min_token_length = 4
    /\ pos_tags_included = AllIncluded

====
